---- MODULE Spec2Model ----
(***************************************************************************)
(* Model of the energy monitor dashboard (src/app.py): the session state   *)
(* (accumulated energy, rolling power history), the sidebar configuration, *)
(* get_data() for both data sources, and the main polling loop.            *)
(*                                                                         *)
(* Units.  Python floats are modelled by exact integers in fixed units:    *)
(*   voltage        volts                                                   *)
(*   current        tenths of an ampere                                     *)
(*   power          milliwatts   (V * 0.1A * 0.92 = 92 mW per unit product) *)
(*   refresh_rate   seconds                                                 *)
(*   energy         mW * s  (= 1 / 3.6e9 kWh)                               *)
(*   tariff         quarter rupees per kWh                                  *)
(*   pf             hundredths;  frequency  hertz                           *)
(* In these units (power/1000)*(refresh_rate/3600) is power*refresh_rate.  *)
(***************************************************************************)
EXTENDS Integers, Sequences, FiniteSets, TLC

VARIABLES
    data_source,   \* sidebar radio: "Simulation" | "Live Device"
    tariff,        \* sidebar number_input
    refresh_rate,  \* sidebar slider
    energy,        \* st.session_state.energy (a Python value)
    history,       \* st.session_state.history: rows [Time, Power]
    local,         \* get_data's reading while a simulated read is returning
    data,          \* loop variable data: None or the reading dict
    now_str,       \* loop variable now_str (0 before it is assigned)
    cost,          \* loop variable cost
    v_status,      \* loop variable v_status
    c_status,      \* current status label: the script never assigns one
    console,       \* what console_placeholder shows
    pc,            \* driver state
    out,           \* what the last step did
    slept,         \* argument of the last completed time.sleep
    reply,         \* history variable: the response the last read consumed
    reads,         \* history variable: one row per reading get_data built
    ingested,      \* history variable: one row per history update
    metered        \* history variable: a Live Device read has been made

vars == <<data_source, tariff, refresh_rate, energy, history, local, data,
          now_str, cost, v_status, c_status, console, pc, out, slept, reply,
          reads, ingested, metered>>

(***************************************************************************)
(* Bounds of the model.                                                    *)
(***************************************************************************)
MaxIngests == 2
MaxSimIngests == 3
MaxLabelIngests == 2
MaxHistIngests == 52
MaxHistSkips == 1
MaxLiveOk == 2

(***************************************************************************)
(* Program constants.                                                      *)
(***************************************************************************)
HistoryCap == 50
BackoffSeconds == 2
VoltageMean == 230
CurrentMean == 50
VoltageFloor == 180
CurrentFloor == 1
SimPF == 92
SimFreq == 50
VoltLow == 200
VoltHigh == 250
DefaultZero == 0
DefaultFreq == 50
DefaultPF == 90
InitialEnergy == 0
DefaultTariff == 30
DefaultRefresh == 1

(***************************************************************************)
(* Python values.  t is the dynamic type: "num" a number, "str" a string   *)
(* that float() parses, "bad" a string float() rejects, "null" None (or    *)
(* any other non-numeric, non-string value), "absent" a missing key.       *)
(* f tells whether the number (or the number the string parses to) is      *)
(* finite ("fin", and then n is its value), infinite ("inf": JSON 1e999,   *)
(* the string "inf") or not a number ("nan": JSON NaN, the string "nan").  *)
(***************************************************************************)
Num(n) == [t |-> "num", n |-> n, f |-> "fin"]
Inf == [t |-> "num", n |-> 0, f |-> "inf"]
NaN == [t |-> "num", n |-> 0, f |-> "nan"]
Str(n) == [t |-> "str", n |-> n, f |-> "fin"]
StrInf == [t |-> "str", n |-> 0, f |-> "inf"]
StrNaN == [t |-> "str", n |-> 0, f |-> "nan"]
Bad == [t |-> "bad", n |-> 0, f |-> "fin"]
Null == [t |-> "null", n |-> 0, f |-> "fin"]
Absent == [t |-> "absent", n |-> 0, f |-> "fin"]

\* the reading dict returned by get_data (its numbers are floats); None has
\* status "NONE"
Reading(st, v, c, p, e, f, q) ==
    [status |-> st, voltage |-> v, current |-> c, power |-> p,
     energy |-> e, freq |-> f, pf |-> q]

None == Reading("NONE", Num(0), Num(0), Num(0), Num(0), Num(0), Num(0))

Max(a, b) == IF a >= b THEN a ELSE b

\* dict.get(key, default)
Get(d, key, dflt) == IF d[key].t = "absent" THEN Num(dflt) ELSE d[key]

\* float(x) succeeds
Floatable(x) == x.t \in {"num", "str"}

\* float(x), where it succeeds
Float(x) == [t |-> "num", n |-> x.n, f |-> x.f]

\* x + <float> succeeds (None + float and str + float raise TypeError)
Addable(x) == x.t = "num"

\* x + k for a float x and a finite k
FAdd(x, k) == IF x.f = "fin" THEN Num(x.n + k) ELSE x

\* x * k for a float x and a finite k >= 0 (inf * 0 is nan)
FMul(x, k) ==
    IF x.f = "fin" THEN Num(x.n * k)
    ELSE IF x.f = "inf" /\ k # 0 THEN Inf
    ELSE NaN

\* k < x and x < k for a float x (every comparison with nan is False)
Above(x, k) == (x.f = "fin" /\ k < x.n) \/ x.f = "inf"

Below(x, k) == x.f = "fin" /\ x.n < k

\* int(x) succeeds for a float x (OverflowError on inf, ValueError on nan)
IntOk(x) == x.f = "fin"

\* mutant: keeps the first n rows instead of the last n
TailRows_head(s, n) == IF Len(s) <= n THEN s ELSE SubSeq(s, 1, n)

\* DataFrame.tail(n): the last n rows
TailRows(s, n) == IF Len(s) <= n THEN s ELSE SubSeq(s, Len(s) - n + 1, Len(s))

(***************************************************************************)
(* HTTP responses of the device.  net = "exception" stands for a timeout   *)
(* or any requests exception; json says how response.json() fares.         *)
(***************************************************************************)
Payload(v, c, p, e, f, q) ==
    [voltage |-> v, current |-> c, power |-> p, energy |-> e,
     frequency |-> f, pf |-> q]

EmptyPayload == Payload(Absent, Absent, Absent, Absent, Absent, Absent)

Response(net, code, json, body) ==
    [net |-> net, code |-> code, json |-> json, body |-> body]

NetError == Response("exception", 0, "invalid", EmptyPayload)
Http500 == Response("ok", 500, "object", EmptyPayload)
BadJson == Response("ok", 200, "invalid", EmptyPayload)
JsonList == Response("ok", 200, "list", EmptyPayload)
Ok200(body) == Response("ok", 200, "object", body)
NoReply == Response("none", 0, "invalid", EmptyPayload)

\* every float(...) of the returned dict succeeds
AllFloatable(b) ==
    /\ Floatable(Get(b, "voltage", DefaultZero))
    /\ Floatable(Get(b, "current", DefaultZero))
    /\ Floatable(Get(b, "power", DefaultZero))
    /\ Floatable(Get(b, "energy", DefaultZero))
    /\ Floatable(Get(b, "frequency", DefaultFreq))
    /\ Floatable(Get(b, "pf", DefaultPF))

(***************************************************************************)
(* get_data().  nv and nc are the two normal samples, resp the device's    *)
(* answer.  The result has the session energy after the call, the value    *)
(* returned (None or a reading) and whether the call raised.               *)
(***************************************************************************)
SimVoltage(nv) == Max(VoltageFloor, VoltageMean + nv)

\* mutant: the current is not floored
SimCurrent_nofloor(nc) == CurrentMean + nc

SimCurrent(nc) == Max(CurrentFloor, CurrentMean + nc)

SimPower(nv, nc) == SimVoltage(nv) * SimCurrent(nc) * SimPF

\* mutant: the increment ignores the elapsed time
KwhIncrement_norate(power, rate) == power

KwhIncrement(power, rate) == power * rate

SimEnergy(e, power, rate) == FAdd(e, KwhIncrement(power, rate))

\* mutant: the reading carries the energy from before the increment
GetDataSim_stale(e, rate, nv, nc) ==
    IF ~Addable(e)
    THEN [energy |-> e, ret |-> None, raised |-> TRUE]
    ELSE [energy |-> SimEnergy(e, SimPower(nv, nc), rate),
          ret |-> Reading("SIMULATED", Num(SimVoltage(nv)),
                          Num(SimCurrent(nc)), Num(SimPower(nv, nc)), e,
                          Num(SimFreq), Num(SimPF)),
          raised |-> FALSE]

GetDataSim(e, rate, nv, nc) ==
    IF ~Addable(e)
    THEN [energy |-> e, ret |-> None, raised |-> TRUE]
    ELSE LET e2 == SimEnergy(e, SimPower(nv, nc), rate)
         IN  [energy |-> e2,
              ret |-> Reading("SIMULATED", Num(SimVoltage(nv)),
                              Num(SimCurrent(nc)), Num(SimPower(nv, nc)), e2,
                              Num(SimFreq), Num(SimPF)),
              raised |-> FALSE]

\* mutant: a reported value below the accumulated one is not taken over
LiveEnergy_clamped(e, b) ==
    IF Get(b, "energy", DefaultZero).n < e.n /\ e.t = "num" THEN e
    ELSE Get(b, "energy", DefaultZero)

\* session energy after "st.session_state.energy = data.get('energy', 0)"
LiveEnergy(e, b) == Get(b, "energy", DefaultZero)

GetDataLive(e, resp) ==
    IF resp.net # "ok" \/ resp.code # 200 \/ resp.json # "object"
    THEN [energy |-> e, ret |-> None, raised |-> FALSE]
    ELSE LET b == resp.body
         IN  [energy |-> LiveEnergy(e, b),
              ret |-> IF AllFloatable(b)
                      THEN Reading("ONLINE",
                                   Float(Get(b, "voltage", DefaultZero)),
                                   Float(Get(b, "current", DefaultZero)),
                                   Float(Get(b, "power", DefaultZero)),
                                   Float(Get(b, "energy", DefaultZero)),
                                   Float(Get(b, "frequency", DefaultFreq)),
                                   Float(Get(b, "pf", DefaultPF)))
                      ELSE None,
              raised |-> FALSE]

GetData(src, e, rate, nv, nc, resp) ==
    IF src = "Simulation" THEN GetDataSim(e, rate, nv, nc)
    ELSE GetDataLive(e, resp)

(***************************************************************************)
(* Derivations of the main loop.                                           *)
(***************************************************************************)
Cost(d, rate) == FMul(d.energy, rate)

\* mutant: the lower bound is inclusive
VoltageStatus_inclusive(v) ==
    IF Above(v, VoltLow - 1) /\ Below(v, VoltHigh) THEN "STABLE" ELSE "WARN"

VoltageStatus(v) ==
    IF Above(v, VoltLow) /\ Below(v, VoltHigh) THEN "STABLE" ELSE "WARN"

UpdateHistory(h, t, d) ==
    TailRows(Append(h, [Time |-> t, Power |-> d.power]), HistoryCap)

\* mutant: the loop goes on to the history update whatever get_data returned
AfterRead_nocheck(ret) == "INGEST"

\* the loop's "if data is None: ... continue" in front of cost and history
AfterRead(ret) == IF ret = None THEN "ERROR_BACKOFF" ELSE "INGEST"

(***************************************************************************)
(* Initial state: a fresh session with the sidebar defaults.               *)
(***************************************************************************)
Init ==
    /\ data_source = "Simulation"
    /\ tariff = DefaultTariff
    /\ refresh_rate = DefaultRefresh
    /\ energy = Num(InitialEnergy)
    /\ history = << >>
    /\ local = None
    /\ data = None
    /\ now_str = 0
    /\ cost = Num(0)
    /\ v_status = "UNSET"
    /\ c_status = "UNSET"
    /\ console = "EMPTY"
    /\ pc = "POLLING"
    /\ out = "init"
    /\ slept = 0
    /\ reply = NoReply
    /\ reads = << >>
    /\ ingested = << >>
    /\ metered = FALSE

(***************************************************************************)
(* The main loop.  A pending rerun is taken wherever the script calls into *)
(* the page or touches st.session_state, before the call or the access     *)
(* takes effect, so the steps of an iteration end at those places:         *)
(*   Read    get_data up to the energy it has written: a simulated read    *)
(*           stops where the returned dict reads the session energy        *)
(*           (RETURN); a Live Device read returns, and the loop runs on    *)
(*           to the history access (INGEST) or to the error notice         *)
(*           (ERROR_BACKOFF);                                              *)
(*   Return  the simulated read returns and the loop runs on to the        *)
(*           history access;                                               *)
(*   Ingest  the history update, up to the first placeholder update;       *)
(*   Render  the placeholder updates with the diagnostic logic;            *)
(*   Sleep   the chart and the success path's time.sleep;                  *)
(*   Backoff the error notice and the failure path's time.sleep.           *)
(* t is the clock reading now_str.                                         *)
(***************************************************************************)
Read(nv, nc, resp, t) ==
    /\ pc = "POLLING"
    /\ LET g == GetData(data_source, energy, refresh_rate, nv, nc, resp)
           sim == data_source = "Simulation"
           ok == ~g.raised /\ g.ret # None
           back == ~g.raised /\ ~(ok /\ sim)
       IN  /\ energy' = g.energy
           /\ local' = IF ok /\ sim THEN g.ret ELSE None
           /\ data' = IF back THEN g.ret ELSE data
           /\ now_str' = IF back THEN t ELSE now_str
           /\ cost' = IF back /\ AfterRead(g.ret) = "INGEST"
                      THEN Cost(g.ret, tariff) ELSE cost
           /\ pc' = IF g.raised THEN "STOPPED"
                    ELSE IF ok /\ sim THEN "RETURN" ELSE AfterRead(g.ret)
           /\ out' = IF g.raised THEN "read_crash"
                     ELSE IF ok THEN "read" ELSE "fail"
           /\ reads' = IF ok
                       THEN Append(reads, [Power |-> g.ret.power,
                                           rate |-> refresh_rate,
                                           energy |-> g.energy])
                       ELSE reads
    /\ reply' = IF data_source = "Simulation" THEN NoReply ELSE resp
    /\ metered' = (metered \/ data_source # "Simulation")
    /\ UNCHANGED <<data_source, tariff, refresh_rate, history, v_status,
                   c_status, console, slept, ingested>>

\* the simulated read returns its dict; now_str, the failure check and cost
Return(t) ==
    /\ pc = "RETURN"
    /\ data' = local
    /\ local' = None
    /\ now_str' = t
    /\ cost' = IF AfterRead(local) = "INGEST" THEN Cost(local, tariff) ELSE cost
    /\ pc' = AfterRead(local)
    /\ out' = "return"
    /\ UNCHANGED <<data_source, tariff, refresh_rate, energy, history,
                   v_status, c_status, console, slept, reply, reads,
                   ingested, metered>>

\* the history update
Ingest ==
    /\ pc = "INGEST"
    /\ history' = UpdateHistory(history, now_str, data)
    /\ pc' = "RENDER"
    /\ out' = "ingest"
    /\ ingested' = Append(ingested, [Time |-> now_str, Power |-> data.power,
                                     voltage |-> data.voltage,
                                     current |-> data.current])
    /\ UNCHANGED <<data_source, tariff, refresh_rate, energy, local, data,
                   now_str, cost, v_status, c_status, console, slept, reply,
                   reads, metered>>

\* the placeholder updates; int(data['power']) of the ACTIVE POWER card
\* raises, uncaught, on a power that is not finite
Render ==
    /\ pc = "RENDER"
    /\ v_status' = IF IntOk(data.power) THEN VoltageStatus(data.voltage)
                   ELSE v_status
    /\ console' = IF IntOk(data.power) THEN "IOT_DIAGNOSTICS_LIVE" ELSE console
    /\ pc' = IF IntOk(data.power) THEN "SLEEP" ELSE "STOPPED"
    /\ out' = IF IntOk(data.power) THEN "render" ELSE "crash"
    /\ UNCHANGED <<data_source, tariff, refresh_rate, energy, history, local,
                   data, now_str, cost, c_status, slept, reply, reads,
                   ingested, metered>>

\* the success path's time.sleep(refresh_rate)
Sleep ==
    /\ pc = "SLEEP"
    /\ slept' = refresh_rate
    /\ pc' = "POLLING"
    /\ out' = "sleep"
    /\ UNCHANGED <<data_source, tariff, refresh_rate, energy, history, local,
                   data, now_str, cost, v_status, c_status, console, reply,
                   reads, ingested, metered>>

\* the error notice and the failure path's time.sleep(2), then continue
Backoff ==
    /\ pc = "ERROR_BACKOFF"
    /\ console' = "CONNECTION ERROR"
    /\ slept' = BackoffSeconds
    /\ pc' = "POLLING"
    /\ out' = "backoff"
    /\ UNCHANGED <<data_source, tariff, refresh_rate, energy, history, local,
                   data, now_str, cost, v_status, c_status, reply, reads,
                   ingested, metered>>

\* a sidebar interaction: the running script is abandoned where it stands
\* (a rerun requested during a sleep or the HTTP wait is taken at the next
\* session state access, before any write) and the script is run from the
\* top with the new widget values; the session state survives
Rerun(src, tf, rate) ==
    /\ data_source' = src
    /\ tariff' = tf
    /\ refresh_rate' = rate
    /\ local' = None
    /\ data' = None
    /\ now_str' = 0
    /\ cost' = Num(0)
    /\ v_status' = "UNSET"
    /\ c_status' = "UNSET"
    /\ console' = "EMPTY"
    /\ pc' = "POLLING"
    /\ out' = "rerun"
    /\ UNCHANGED <<energy, history, slept, reply, reads, ingested, metered>>

(***************************************************************************)
(* Inputs: the sidebar's settings, the simulator's normal samples, the     *)
(* device's answers and the clock readings.                                *)
(***************************************************************************)
Sources == {"Simulation", "Live Device"}
Tariffs == {0, DefaultTariff}
Rates == {DefaultRefresh}
Clock == {1}

VoltNoise == {0}
CurrNoise == {-60, 0}

FailedReplies == {NetError, Http500, BadJson, JsonList}

Replies ==
    FailedReplies \cup
    {Ok200(Payload(Num(231), Num(42), Num(960), e, Absent, Absent)) :
        e \in {Absent, Num(5), Num(3), Str(7)}} \cup
    {Ok200(Payload(Bad, Num(42), Num(960), e, Absent, Absent)) :
        e \in {Num(3), Null}} \cup
    {Ok200(Payload(Num(231), Num(42), Inf, Num(5), Absent, Absent))}

PollSim ==
    /\ data_source = "Simulation"
    /\ Len(reads) < MaxIngests
    /\ \E nv \in VoltNoise, nc \in CurrNoise : Read(nv, nc, NoReply, 0)

PollLive ==
    /\ data_source = "Live Device"
    /\ Len(reads) < MaxIngests
    /\ \E resp \in Replies, t \in Clock : Read(0, 0, resp, t)

ReturnSim == \E t \in Clock : Return(t)

Configure ==
    \E src \in Sources, tf \in Tariffs, rate \in Rates : Rerun(src, tf, rate)

Next ==
    PollSim \/ PollLive \/ ReturnSim \/ Ingest \/ Render \/ Sleep \/ Backoff
        \/ Configure

Spec == Init /\ [][Next]_vars

(***************************************************************************)
(* Simulation only, with the polling rate varied between cycles.           *)
(***************************************************************************)
SimRates == {DefaultRefresh, 2, 3}

PollSimRun ==
    /\ data_source = "Simulation"
    /\ Len(reads) < MaxSimIngests
    /\ \E nv \in VoltNoise, nc \in CurrNoise : Read(nv, nc, NoReply, 0)

ConfigureSim ==
    \E rate \in SimRates : Rerun("Simulation", DefaultTariff, rate)

NextSim ==
    PollSimRun \/ ReturnSim \/ Ingest \/ Render \/ Sleep \/ ConfigureSim

SpecSim == Init /\ [][NextSim]_vars

(***************************************************************************)
(* Readings around the label thresholds, from both sources.                *)
(***************************************************************************)
LabelNoise ==
    {<<-60, -60>>, <<-30, 99>>, <<-29, 100>>, <<19, 99>>, <<20, 100>>}

LabelValues ==
    {<<Num(200), Num(149)>>, <<Num(201), Num(150)>>, <<Num(201), Num(149)>>,
     <<Num(250), Num(149)>>, <<Absent, Num(150)>>, <<Inf, Num(149)>>}

LabelReplies ==
    {Http500} \cup
    {Ok200(Payload(x[1], x[2], Num(960), Num(5), Absent, Absent)) :
        x \in LabelValues} \cup
    {Ok200(Payload(Num(201), Num(42), StrNaN, Num(5), Absent, Absent))}

PollSimLabels ==
    /\ data_source = "Simulation"
    /\ Len(reads) < MaxLabelIngests
    /\ \E x \in LabelNoise : Read(x[1], x[2], NoReply, 0)

PollLiveLabels ==
    /\ data_source = "Live Device"
    /\ Len(reads) < MaxLabelIngests
    /\ \E resp \in LabelReplies, t \in Clock : Read(0, 0, resp, t)

ConfigureLabels ==
    \E src \in Sources : Rerun(src, DefaultTariff, DefaultRefresh)

NextLabels ==
    PollSimLabels \/ PollLiveLabels \/ ReturnSim \/ Ingest \/ Render \/ Sleep
        \/ Backoff \/ ConfigureLabels

SpecLabels == Init /\ [][NextLabels]_vars

(***************************************************************************)
(* A long Live Device run: the device numbers the samples it serves and    *)
(* the clock shows the number of the read being served.  The user turns to *)
(* the Live Device and from then on touches the sidebar only to cut a      *)
(* cycle off before its history update, at most MaxHistSkips times.        *)
(***************************************************************************)
BasePower == 900

HistReplies(k) ==
    {Http500,
     Ok200(Payload(Num(230), Num(42), Num(BasePower + k), Num(k), Absent, Absent))}

PollLiveHist ==
    /\ data_source = "Live Device"
    /\ Len(reads) < MaxHistIngests
    /\ \E resp \in HistReplies(Len(reads)) : Read(0, 0, resp, Len(reads) + 1)

ConfigureHist ==
    /\ \/ data_source = "Simulation"
       \/ pc = "INGEST" /\ Len(reads) - Len(ingested) <= MaxHistSkips
    /\ Rerun("Live Device", DefaultTariff, DefaultRefresh)

NextHist ==
    PollLiveHist \/ Ingest \/ Render \/ Sleep \/ Backoff \/ ConfigureHist

SpecHist == Init /\ [][NextHist]_vars

(***************************************************************************)
(* An unbounded Live Device run: the device serves at most MaxLiveOk good  *)
(* readings and fails from then on.  The loop is a sequential program:     *)
(* each of its steps is taken once it is due.                              *)
(***************************************************************************)
LiveRates == {DefaultRefresh, 5}

LivePool ==
    {NetError, Http500,
     Ok200(Payload(Bad, Num(42), Num(960), Num(3), Absent, Absent)),
     Ok200(Payload(Num(231), Num(42), Num(960), Num(5), Absent, Absent)),
     Ok200(Payload(Num(231), Num(42), Num(960), Absent, Absent, Absent)),
     Ok200(Payload(Num(231), Num(42), StrInf, Num(5), Absent, Absent))}

LiveReplies(k) ==
    IF k < MaxLiveOk THEN LivePool
    ELSE {r \in LivePool : GetDataLive(Num(0), r).ret = None}

PollLiveForever ==
    /\ data_source = "Live Device"
    /\ \E resp \in LiveReplies(Len(reads)), t \in Clock : Read(0, 0, resp, t)

ConfigureLive ==
    \E rate \in LiveRates : Rerun("Live Device", DefaultTariff, rate)

NextLive ==
    PollLiveForever \/ Ingest \/ Render \/ Sleep \/ Backoff \/ ConfigureLive

SpecLive ==
    /\ Init
    /\ [][NextLive]_vars
    /\ WF_vars(PollLiveForever)
    /\ WF_vars(Ingest)
    /\ WF_vars(Render)
    /\ WF_vars(Sleep)
    /\ WF_vars(Backoff)

(***************************************************************************)
(* Properties.                                                             *)
(***************************************************************************)
Min(a, b) == IF a <= b THEN a ELSE b

\* the last step was a call of get_data
IsRead(o) == o \in {"read", "fail", "read_crash"}

\* the loop holds the reading of a successful read and its cost
InCycle(p) == p \in {"INGEST", "RENDER", "SLEEP"}

\* the (timestamp, power) pair of a history update
Row(r) == [Time |-> r.Time, Power |-> r.Power]

RECURSIVE SumKwh(_)
SumKwh(rows) ==
    IF rows = << >> THEN 0
    ELSE rows[1].Power.n * rows[1].rate + SumKwh(Tail(rows))

\* C1: a Live Device cycle whose read fails leaves the accumulated energy
\* exactly as it was before the read.
C1_FailedReadKeepsEnergy ==
    [][(data_source = "Live Device" /\ out' = "fail") => energy' = energy]_vars

\* C2: the history is exactly the most recent min(k, 50) rows of the k
\* successful ingests (cycles that came to their history update), in
\* insertion order; it never exceeds 50 rows, and after 51 ingests its oldest
\* row is the 2nd one inserted.
C2_HistoryWindow ==
    LET k == Len(ingested)
        m == Min(k, HistoryCap)
    IN  /\ Len(history) = m
        /\ Len(history) <= HistoryCap
        /\ \A i \in 1..m : history[i] = Row(ingested[k - m + i])
        /\ (k = HistoryCap + 1 => history[1] = Row(ingested[2]))

C2_Witness ==
    /\ Len(ingested) = HistoryCap + 1
    /\ Len(history) = HistoryCap
    /\ history[1] = Row(ingested[2])
    /\ history[1].Power = Num(BasePower + 1)
    /\ history[HistoryCap].Power = Num(BasePower + HistoryCap)

\* C3: after a successful Live Device read the accumulated energy is the
\* energy value the device reported (0 when the field is absent), whatever
\* it was before; a lower value than before is taken over unclamped.
C3_RemoteOverwrite ==
    ((InCycle(pc) \/ out = "crash") /\ data.status = "ONLINE") =>
        /\ energy = (IF reply.body.energy = Absent THEN Num(0)
                     ELSE reply.body.energy)
        /\ data.energy.n = energy.n
        /\ data.energy.f = energy.f

C3_Witness ==
    /\ out = "read"
    /\ data.status = "ONLINE"
    /\ Len(reads) = 2
    /\ reads[1].energy = Num(5)
    /\ reply.body.energy = Num(3)
    /\ energy = Num(3)

\* C4: starting from energy 0, after N simulated readings the accumulated
\* energy is the sum of the N contributions power * elapsed, the elapsed
\* time of a reading being the polling rate in force for it; nothing else
\* is ever added.
C4_SimAdditive ==
    ~metered => energy = Num(SumKwh(reads))

C4_Witness ==
    /\ ~metered
    /\ out = "ingest"
    /\ Len(reads) = 3
    /\ Len(ingested) = 3
    /\ reads[1].rate # reads[2].rate
    /\ reads[2].Power # reads[3].Power
    /\ energy.n > 0

\* C5: no step of a cycle in Simulation mode lowers the accumulated energy:
\* the simulated voltage is at least 180 V, the current at least 0.1 A, so
\* the power is not negative.
C5_SimMonotone ==
    [][data_source = "Simulation" =>
          /\ \/ energy' = energy
             \/ /\ energy.t = "num" /\ energy.f = "fin"
                /\ energy'.t = "num" /\ energy'.f = "fin"
                /\ energy'.n >= energy.n
          /\ out' = "read" => /\ local'.voltage.n >= VoltageFloor
                              /\ local'.current.n >= CurrentFloor
                              /\ local'.power.n >= 0]_vars

C5_Witness ==
    /\ out = "read"
    /\ local.status = "SIMULATED"
    /\ local.current = Num(CurrentFloor)
    /\ Len(reads) = 2
    /\ energy.n > reads[1].energy.n

\* C6: in a successful cycle the cost is the accumulated energy, as updated
\* by this cycle's reading, times the tariff, unrounded.
C6_CostExact ==
    InCycle(pc) =>
        /\ cost.f = energy.f
        /\ energy.f = "fin" => cost.n = energy.n * tariff

C6_Witness ==
    /\ out = "render"
    /\ data.status = "SIMULATED"
    /\ Len(reads) = 2
    /\ tariff = DefaultTariff
    /\ cost = Num(energy.n * DefaultTariff)
    /\ energy.n > reads[1].energy.n

\* The failure path by itself: the driver is in ERROR_BACKOFF exactly after
\* a failed read; from there the loop sleeps the fixed backoff interval,
\* whatever the polling rate, and returns to POLLING; every failed read is
\* eventually followed by another read.
BackoffLoopRetries ==
    /\ [](pc = "ERROR_BACKOFF" <=> out = "fail")
    /\ [](out = "fail" => data = None)
    /\ [][(pc = "ERROR_BACKOFF" /\ out' # "rerun") =>
             (pc' = "POLLING" /\ slept' = BackoffSeconds)]_vars
    /\ (out = "fail") ~> (pc = "POLLING" /\ out \in {"backoff", "rerun"})
    /\ (pc = "POLLING" /\ out \in {"backoff", "rerun"}) ~> IsRead(out)

\* C7: the driver is in ERROR_BACKOFF exactly after a failed read; from
\* there the loop sleeps the fixed backoff interval, whatever the polling
\* rate, and returns to POLLING; there is no retry limit, no terminal state
\* is reachable, and every failed read is eventually followed by another
\* read.
C7_BackoffRetries ==
    /\ BackoffLoopRetries
    /\ [](pc # "STOPPED")

\* C8: the voltage label derived in a cycle is STABLE iff
\* 200 < voltage < 250 and WARN otherwise, whatever the earlier labels were.
C8_VoltageLabel ==
    out \in {"render", "sleep"} =>
        /\ v_status \in {"STABLE", "WARN"}
        /\ v_status = "STABLE" <=>
               /\ data.voltage.f = "fin"
               /\ 200 < data.voltage.n
               /\ data.voltage.n < 250

C8_Witness ==
    /\ out = "render"
    /\ Len(ingested) = 2
    /\ ingested[1].voltage = Num(201)
    /\ data.voltage = Num(200)
    /\ v_status = "WARN"

\* C9: a cycle whose read fails performs no ingest: history and cost are
\* left as they were and only the connection error notice is shown; the
\* history changes only in the cycles of successful reads, by one appended
\* row each.
C9_FailureSkipsIngest ==
    [][/\ out' = "fail" =>
            /\ history' = history
            /\ cost' = cost
            /\ data' = None
            /\ pc' = "ERROR_BACKOFF"
       /\ (pc = "ERROR_BACKOFF" /\ out' # "rerun") =>
            /\ history' = history
            /\ cost' = cost
            /\ console' = "CONNECTION ERROR"
       /\ history' # history => (out' = "ingest" /\ data # None)
       /\ out' = "ingest" =>
            /\ Len(history') = Min(Len(history) + 1, HistoryCap)
            /\ history'[Len(history')].Power = data.power
            /\ \A i \in 1..(Len(history') - 1) :
                   history'[i] = history[i + Len(history) + 1 - Len(history')]]_vars

C9_Witness ==
    /\ out = "backoff"
    /\ console = "CONNECTION ERROR"
    /\ Len(history) = 1
    /\ Len(ingested) = 1
    /\ data = None

\* C10: the current label of a successful cycle is NOMINAL iff the current
\* is below the 15 A ceiling and OVERLOAD otherwise.
C10_CurrentLabel ==
    out \in {"render", "sleep"} =>
        /\ c_status \in {"NOMINAL", "OVERLOAD"}
        /\ c_status = "NOMINAL" <=>
               (data.current.f = "fin" /\ data.current.n < 150)

====
